---- MODULE Spec2Model ----
(***************************************************************************)
(* Model of src/deliverychecker.ts: the feasibility check of one parcel    *)
(* against a truck path (parcelCanBeDelivered), the aggregation of the     *)
(* per-parcel results into an itinerary or one error (generateTruckSteps)  *)
(* and the command-line entry point (main).                                *)
(*                                                                         *)
(* Three specifications:                                                     *)
(*   Spec      a caller invokes generateTruckSteps(deliveries, truckPath)  *)
(*             on any list of parcels and any path within the bounds;      *)
(*   SpecMain  the process invokes main() on any two command-line          *)
(*             arguments drawn from RawArgs;                               *)
(*   SpecRoute a caller invokes generateTruckSteps on a route that visits  *)
(*             every address once, over a wider range of addresses.        *)
(***************************************************************************)
EXTENDS Integers, Sequences, FiniteSets, TLC

VARIABLES
    pc,          \* "start" before the call, "done" after it
    argv,        \* <<process.argv[2], process.argv[3]>> (SpecMain)
    deliveries,  \* the Deliveries handed to generateTruckSteps
    truckPath,   \* the TruckPath handed to generateTruckSteps
    maybeSteps,  \* generateTruckSteps: one checker result per parcel
    steps,       \* generateTruckSteps: the flattened steps sorted by address
    fullSteps,   \* generateTruckSteps: the steps after gap filling
    output,      \* the Output generateTruckSteps returned
    mainResult   \* what main() did: returned a code, or threw

vars == <<pc, argv, deliveries, truckPath, maybeSteps, steps, fullSteps, output, mainResult>>

(***************************************************************************)
(* Bounds of the model.                                                    *)
(***************************************************************************)
MaxAddr == 3
MaxParcels == 2
MaxPathLen == 3

Addresses == 1..MaxAddr

\* every sequence over S of length 0..n
SeqUpTo(S, n) == UNION {[1..k -> S] : k \in 0..n}

(***************************************************************************)
(* JavaScript values that are not numbers.                                 *)
(***************************************************************************)
\* the value `undefined` (a failed Array.prototype.find, a read past the end)
Undefined == [undefined |-> TRUE]

\* the value of a variable the call has not assigned
NotComputed == <<>>

NoOutput == [status |-> "none"]

NoResult == [kind |-> "none"]

(***************************************************************************)
(* Number to string conversion of a template literal `${n}`.               *)
(***************************************************************************)
Digit(d) ==
    CASE d = 0 -> "0" [] d = 1 -> "1" [] d = 2 -> "2" [] d = 3 -> "3"
      [] d = 4 -> "4" [] d = 5 -> "5" [] d = 6 -> "6" [] d = 7 -> "7"
      [] d = 8 -> "8" [] d = 9 -> "9"

RECURSIVE NatToString(_)
NatToString(n) ==
    IF n < 10 THEN Digit(n) ELSE NatToString(n \div 10) \o Digit(n % 10)

NumberToString(n) ==
    IF n < 0 THEN "-" \o NatToString(-n) ELSE NatToString(n)

(***************************************************************************)
(* Array.prototype.indexOf: the 0-based index of the first occurrence,     *)
(* -1 when there is none.                                                  *)
(***************************************************************************)
indexOf(arr, x) ==
    IF \E i \in 1..Len(arr) : arr[i] = x
    THEN (CHOOSE i \in 1..Len(arr) :
              /\ arr[i] = x
              /\ \A j \in 1..(i - 1) : arr[j] # x) - 1
    ELSE -1

\* Array.prototype.lastIndexOf
lastIndexOf(arr, x) ==
    IF \E i \in 1..Len(arr) : arr[i] = x
    THEN (CHOOSE i \in 1..Len(arr) :
              /\ arr[i] = x
              /\ \A j \in (i + 1)..Len(arr) : arr[j] # x) - 1
    ELSE -1

(***************************************************************************)
(* parcelCanBeDelivered (lines 76-116)                                     *)
(***************************************************************************)
pickupIndexOf(parcel, path) == indexOf(path, parcel.pickupAddress)

dropoffIndexOf_last(parcel, path) == lastIndexOf(path, parcel.dropoffAddress)

dropoffIndexOf(parcel, path) == indexOf(path, parcel.dropoffAddress)

pickupNotInPath_dropoff(parcel) ==
    [error_code |-> "delivery_address_not_in_path",
     error_message |-> "Delivery address " \o NumberToString(parcel.dropoffAddress)
                           \o " not in path"]

pickupNotInPath(parcel) ==
    [error_code |-> "delivery_address_not_in_path",
     error_message |-> "Delivery address " \o NumberToString(parcel.pickupAddress)
                           \o " not in path"]

dropoffNotInPath_code(parcel) ==
    [error_code |-> "delivery_address_not_in_path",
     error_message |-> "Dropoff address " \o NumberToString(parcel.dropoffAddress)
                           \o " not in path"]

dropoffNotInPath(parcel) ==
    [error_code |-> "dropoff_address_not_in_path",
     error_message |-> "Dropoff address " \o NumberToString(parcel.dropoffAddress)
                           \o " not in path"]

dropoffBeforePickup(parcel) ==
    [error_code |-> "delivery_dropoff_before_pickup",
     error_message |-> "Dropoff address " \o NumberToString(parcel.dropoffAddress)
                           \o " before pickup address "
                           \o NumberToString(parcel.pickupAddress)]

isDropoffBeforePickup_orAt(dropoffIndex, pickupIndex) == dropoffIndex <= pickupIndex

isDropoffBeforePickup(dropoffIndex, pickupIndex) == dropoffIndex < pickupIndex

parcelSteps(parcel) ==
    << [address |-> parcel.pickupAddress, action |-> "pickup"],
       [address |-> parcel.dropoffAddress, action |-> "dropoff"] >>

parcelCanBeDelivered(parcel, path) ==
    LET pickupIndex == pickupIndexOf(parcel, path)
        dropoffIndex == dropoffIndexOf(parcel, path)
    IN  IF pickupIndex = -1 THEN <<FALSE, pickupNotInPath(parcel)>>
        ELSE IF dropoffIndex = -1 THEN <<FALSE, dropoffNotInPath(parcel)>>
        ELSE IF isDropoffBeforePickup(dropoffIndex, pickupIndex)
             THEN <<FALSE, dropoffBeforePickup(parcel)>>
        ELSE <<TRUE, parcelSteps(parcel)>>

(***************************************************************************)
(* parcelsAreAllDeliverable (lines 121-125)                                *)
(***************************************************************************)
\* the check reading tuple[1] instead of tuple[0]: `tuple[1] === true` holds
\* of no tuple, so every() is true of the empty array only
parcelsAreAllDeliverable_wrongIndex(results) == Len(results) = 0

parcelsAreAllDeliverable(results) ==
    \A i \in 1..Len(results) : results[i][1] = TRUE

(***************************************************************************)
(* generateTruckSteps (lines 129-183)                                      *)
(***************************************************************************)
\* line 134: deliveries.map((parcel) => parcelCanBeDelivered(parcel, truckPath))
mapParcels(ds, path) ==
    [i \in 1..Len(ds) |-> parcelCanBeDelivered(ds[i], path)]

\* a find whose predicate compares tuple[0] with the string 'false'
findError_never(results) == Undefined

\* a findLast in place of the find
findError_last(results) ==
    IF \E i \in 1..Len(results) : results[i][1] = FALSE
    THEN results[CHOOSE i \in 1..Len(results) :
                     /\ results[i][1] = FALSE
                     /\ \A j \in (i + 1)..Len(results) : results[j][1] # FALSE]
    ELSE Undefined

\* line 141: maybeSteps.find((tuple) => tuple[0] === false)
findError(results) ==
    IF \E i \in 1..Len(results) : results[i][1] = FALSE
    THEN results[CHOOSE i \in 1..Len(results) :
                     /\ results[i][1] = FALSE
                     /\ \A j \in 1..(i - 1) : results[j][1] # FALSE]
    ELSE Undefined

\* lines 141-145: the error outcome
errorOutput(results) ==
    LET error == findError(results)
    IN  IF error # Undefined
        THEN [status |-> "error",
              error_code |-> error[2].error_code,
              error_message |-> error[2].error_message]
        ELSE [status |-> "error",
              error_code |-> "unknown_error",
              error_message |-> "Unknown error"]

\* lines 149-151: maybeSteps.map((tuple) => tuple[1]).flat()
RECURSIVE flatSteps(_)
flatSteps(results) ==
    IF Len(results) = 0 THEN <<>>
    ELSE results[1][2] \o flatSteps(Tail(results))

\* the place Array.prototype.sort (stable) gives step s among the sorted acc
RECURSIVE insertByAddress(_, _)
insertByAddress(acc, s) ==
    IF Len(acc) = 0 THEN <<s>>
    ELSE IF acc[Len(acc)].address - s.address > 0
         THEN Append(insertByAddress(SubSeq(acc, 1, Len(acc) - 1), s), acc[Len(acc)])
         ELSE Append(acc, s)

\* line 153: flatSteps.sort((a, b) => a.address - b.address)
RECURSIVE sortByAddress(_)
sortByAddress(ss) ==
    IF Len(ss) = 0 THEN <<>>
    ELSE insertByAddress(sortByAddress(SubSeq(ss, 1, Len(ss) - 1)), ss[Len(ss)])

\* the reduce with the test nextStep.address >= step.address + 2: one step
\* inserted in every gap, whatever its width
RECURSIVE fillUpTo_anyGap(_, _)
fillUpTo_anyGap(ss, i) ==
    IF i = 0 THEN <<>>
    ELSE LET acc == fillUpTo_anyGap(ss, i - 1)
             step == ss[i]
         IN  IF i = Len(ss) THEN Append(acc, step)
             ELSE IF ss[i + 1].address >= step.address + 2
                  THEN acc \o <<step, [address |-> step.address + 1, action |-> "null"]>>
                  ELSE Append(acc, step)

\* lines 157-171: the reduce over steps, up to and including index i (1-based)
RECURSIVE fillUpTo(_, _)
fillUpTo(ss, i) ==
    IF i = 0 THEN <<>>
    ELSE LET acc == fillUpTo(ss, i - 1)
             step == ss[i]
         IN  IF i = Len(ss) THEN Append(acc, step)
             ELSE LET nextStep == ss[i + 1]
                      isStopMissed == nextStep.address = step.address + 2
                  IN  IF isStopMissed
                      THEN acc \o <<step, [address |-> step.address + 1, action |-> "null"]>>
                      ELSE Append(acc, step)

fillMissing(ss) == fillUpTo(ss, Len(ss))

\* line 177: fullSteps.find((step) => step.address === trackId)
findStep(filled, trackId) ==
    IF \E k \in 1..Len(filled) : filled[k].address = trackId
    THEN filled[CHOOSE k \in 1..Len(filled) :
                    /\ filled[k].address = trackId
                    /\ \A j \in 1..(k - 1) : filled[j].address # trackId]
    ELSE Undefined

\* the filled steps returned as they are, in address order
rightOrderStep_unordered(filled, path) == filled

\* lines 174-178: fullSteps.map((_, i) => find of truckPath[i]); truckPath[i]
\* is undefined past the end of the path and no step has that address
rightOrderStep(filled, path) ==
    [i \in 1..Len(filled) |->
        IF i <= Len(path) THEN findStep(filled, path[i]) ELSE Undefined]

\* lines 129-183: the locals of the call and the Output it returns
generateTruckSteps(ds, path) ==
    LET results == mapParcels(ds, path)
    IN  IF ~parcelsAreAllDeliverable(results)
        THEN [maybeSteps |-> results,
              steps |-> NotComputed,
              fullSteps |-> NotComputed,
              output |-> errorOutput(results)]
        ELSE LET sorted == sortByAddress(flatSteps(results))
                 filled == fillMissing(sorted)
             IN  [maybeSteps |-> results,
                  steps |-> sorted,
                  fullSteps |-> filled,
                  output |-> [status |-> "success",
                              steps |-> rightOrderStep(filled, path)]]

(***************************************************************************)
(* The values JSON.parse yields, tagged with their typeof.                 *)
(***************************************************************************)
Num(n) == [type |-> "number", n |-> n]

\* a string, as the sequence of its characters
Str(chars) == [type |-> "string", chars |-> chars]

Null == [type |-> "null"]

Arr(items) == [type |-> "array", items |-> items]

\* an object, as the function from its keys to their values
Obj(props) == [type |-> "object", props |-> props]

\* value[k] for a 0-based index k; reading an index of null throws a TypeError
CanIndex(value) == value # Null /\ value # Undefined

Index(value, k) ==
    CASE value.type = "array" ->
             IF k < Len(value.items) THEN value.items[k + 1] ELSE Undefined
      [] value.type = "string" ->
             IF k < Len(value.chars) THEN Str(<<value.chars[k + 1]>>) ELSE Undefined
      [] value.type = "object" ->
             IF NumberToString(k) \in DOMAIN value.props
             THEN value.props[NumberToString(k)] ELSE Undefined
      [] OTHER -> Undefined

typeof(value) == IF value = Undefined THEN "undefined" ELSE value.type

(***************************************************************************)
(* The command-line arguments process.argv[2] and process.argv[3].         *)
(***************************************************************************)
\* no argument at that position
NoArg == [arg |-> "undefined"]

\* the empty string
EmptyArg == [arg |-> "empty"]

\* a non-empty text that is not JSON, such as [[1,2
MalformedArg == [arg |-> "malformed"]

\* the JSON text of value
JsonArg(value) == [arg |-> "json", value |-> value]

\* !arg
Falsy(a) == a = NoArg \/ a = EmptyArg

\* JSON.parse(arg) of a non-empty text: a value, or a SyntaxError thrown
JSONparse(a) ==
    IF a.arg = "json" THEN [threw |-> FALSE, value |-> a.value]
    ELSE [threw |-> TRUE]

(***************************************************************************)
(* Type guards and mapping (lines 9-40)                                    *)
(***************************************************************************)
isParcel(parcel) ==
    /\ parcel.pickupAddress # Undefined
    /\ parcel.dropoffAddress # Undefined
    /\ typeof(parcel.pickupAddress) = "number"
    /\ typeof(parcel.dropoffAddress) = "number"

ParcelFromTuple(tuple) ==
    [pickupAddress |-> Index(tuple, 0), dropoffAddress |-> Index(tuple, 1)]

\* on the array main builds with map
isDeliveries(ds) ==
    /\ Len(ds) # 0
    /\ \A i \in 1..Len(ds) : isParcel(ds[i])

isTruckPath(value) ==
    /\ value.type = "array"
    /\ \A i \in 1..Len(value.items) : typeof(value.items[i]) = "number"

\* the Deliveries and the TruckPath the guards have narrowed to, as numbers
asDeliveries(ds) ==
    [i \in 1..Len(ds) |-> [pickupAddress |-> ds[i].pickupAddress.n,
                           dropoffAddress |-> ds[i].dropoffAddress.n]]

asTruckPath(value) == [i \in 1..Len(value.items) |-> value.items[i].n]

(***************************************************************************)
(* main (lines 186-223)                                                    *)
(***************************************************************************)
Return(code) == [kind |-> "return", code |-> code]

Throw(error) == [kind |-> "throw", error |-> error]

\* what main does on the two arguments, and the call of generateTruckSteps
\* it makes (called |-> FALSE when it makes none)
NoCall == [called |-> FALSE]

main(args) ==
    LET deliveriesFromArgv == args[1]
        truckPathFromArgv == args[2]
    IN  IF Falsy(deliveriesFromArgv) \/ Falsy(truckPathFromArgv)
        THEN [result |-> Return(1), call |-> NoCall]
        ELSE IF JSONparse(deliveriesFromArgv).threw
        THEN [result |-> Throw("SyntaxError"), call |-> NoCall]
        ELSE LET rawDeliveries == JSONparse(deliveriesFromArgv).value
        IN  IF rawDeliveries.type # "array" \/ Len(rawDeliveries.items) = 0
            THEN [result |-> Return(2), call |-> NoCall]
            ELSE IF \E i \in 1..Len(rawDeliveries.items) : ~CanIndex(rawDeliveries.items[i])
            THEN [result |-> Throw("TypeError"), call |-> NoCall]
            ELSE LET ds == [i \in 1..Len(rawDeliveries.items) |->
                               ParcelFromTuple(rawDeliveries.items[i])]
            IN  IF JSONparse(truckPathFromArgv).threw
                THEN [result |-> Throw("SyntaxError"), call |-> NoCall]
                ELSE LET path == JSONparse(truckPathFromArgv).value
                IN  IF ~isDeliveries(ds)
                    THEN [result |-> Return(2), call |-> NoCall]
                    ELSE IF ~isTruckPath(path)
                    THEN [result |-> Return(4), call |-> NoCall]
                    ELSE [result |-> Return(0),
                          call |-> [called |-> TRUE,
                                    deliveries |-> asDeliveries(ds),
                                    truckPath |-> asTruckPath(path)]]

(***************************************************************************)
(* Spec: a call of generateTruckSteps on any parcels and any path.         *)
(***************************************************************************)
Parcels == [pickupAddress : Addresses, dropoffAddress : Addresses]

Init ==
    /\ pc = "start"
    /\ argv = <<>>
    /\ deliveries \in SeqUpTo(Parcels, MaxParcels)
    /\ truckPath \in SeqUpTo(Addresses, MaxPathLen)
    /\ maybeSteps = NotComputed
    /\ steps = NotComputed
    /\ fullSteps = NotComputed
    /\ output = NoOutput
    /\ mainResult = NoResult

CallGenerateTruckSteps ==
    /\ pc = "start"
    /\ pc' = "done"
    /\ LET call == generateTruckSteps(deliveries, truckPath)
       IN  /\ maybeSteps' = call.maybeSteps
           /\ steps' = call.steps
           /\ fullSteps' = call.fullSteps
           /\ output' = call.output
    /\ UNCHANGED <<argv, deliveries, truckPath, mainResult>>

Next == CallGenerateTruckSteps

Spec == Init /\ [][Next]_vars

(***************************************************************************)
(* SpecMain: a run of main on any two command-line arguments.              *)
(***************************************************************************)
Scalars == {Num(a) : a \in Addresses} \cup {Str(<<"1">>), Null}

\* what an element of the deliveries array may be
RawTuples ==
    {Arr(<<a, b>>) : a, b \in Scalars}
        \cup {Arr(<<Num(1)>>), Null, Num(1), Str(<<"1", "2">>),
              Obj([k \in {"0", "1"} |-> Num(1)])}

RawDeliveries ==
    {Arr(items) : items \in SeqUpTo(RawTuples, MaxParcels)} \cup {Num(1), Null}

RawTruckPaths ==
    {Arr(items) : items \in SeqUpTo({Num(a) : a \in Addresses} \cup {Str(<<"2">>)},
                                    MaxPathLen)}
        \cup {Num(2), Null}

RawArgs(values) == {NoArg, EmptyArg, MalformedArg} \cup {JsonArg(v) : v \in values}

InitMain ==
    /\ pc = "start"
    /\ argv \in RawArgs(RawDeliveries) \X RawArgs(RawTruckPaths)
    /\ deliveries = NotComputed
    /\ truckPath = NotComputed
    /\ maybeSteps = NotComputed
    /\ steps = NotComputed
    /\ fullSteps = NotComputed
    /\ output = NoOutput
    /\ mainResult = NoResult

CallMain ==
    /\ pc = "start"
    /\ pc' = "done"
    /\ LET run == main(argv)
       IN  /\ mainResult' = run.result
           /\ IF run.call.called
              THEN LET call == generateTruckSteps(run.call.deliveries, run.call.truckPath)
                   IN  /\ deliveries' = run.call.deliveries
                       /\ truckPath' = run.call.truckPath
                       /\ maybeSteps' = call.maybeSteps
                       /\ steps' = call.steps
                       /\ fullSteps' = call.fullSteps
                       /\ output' = call.output
              ELSE UNCHANGED <<deliveries, truckPath, maybeSteps, steps, fullSteps, output>>
    /\ UNCHANGED argv

NextMain == CallMain

SpecMain == InitMain /\ [][NextMain]_vars

(***************************************************************************)
(* SpecRoute: a call of generateTruckSteps on a route that visits every    *)
(* address 1..MaxRouteAddr once, in ascending or in descending order (the  *)
(* routes of the tests "exemple 1" and "test reversed pathing").           *)
(***************************************************************************)
MaxRouteAddr == 6

RouteAddresses == 1..MaxRouteAddr

RouteParcels == [pickupAddress : RouteAddresses, dropoffAddress : RouteAddresses]

Routes ==
    { [i \in 1..MaxRouteAddr |-> i], [i \in 1..MaxRouteAddr |-> MaxRouteAddr + 1 - i] }

InitRoute ==
    /\ pc = "start"
    /\ argv = <<>>
    /\ deliveries \in SeqUpTo(RouteParcels, MaxParcels)
    /\ truckPath \in Routes
    /\ maybeSteps = NotComputed
    /\ steps = NotComputed
    /\ fullSteps = NotComputed
    /\ output = NoOutput
    /\ mainResult = NoResult

NextRoute == CallGenerateTruckSteps

SpecRoute == InitRoute /\ [][NextRoute]_vars

(***************************************************************************)
(* Vocabulary of the properties.                                           *)
(***************************************************************************)
Range(seq) == {seq[i] : i \in 1..Len(seq)}

\* the position of the first occurrence of x in seq (x occurs in seq)
FirstOccurrence(seq, x) ==
    CHOOSE i \in 1..Len(seq) :
        /\ seq[i] = x
        /\ \A j \in 1..Len(seq) : seq[j] = x => i <= j

Returned == pc = "done" /\ output # NoOutput

Succeeded == Returned /\ output.status = "success"

Failed == Returned /\ output.status = "error"

Deliverable(parcel) == parcelCanBeDelivered(parcel, truckPath)[1] = TRUE

Undeliverable == {i \in 1..Len(deliveries) : ~Deliverable(deliveries[i])}

\* some parcel is picked up or dropped off at address a
HasParcelEvent(a) ==
    \E i \in 1..Len(deliveries) :
        deliveries[i].pickupAddress = a \/ deliveries[i].dropoffAddress = a

ErrorOf(kind, message) == [error_code |-> kind, error_message |-> message]

(***************************************************************************)
(* C1: whenever generateTruckSteps returns success on a non-empty list of  *)
(* parcels, the returned steps are in truck-path order: every returned     *)
(* steps[i] is a present Step whose address is truckPath[i].               *)
(***************************************************************************)
C1_StepsInPathOrder ==
    (Succeeded /\ Len(deliveries) > 0) =>
        \A i \in 1..Len(output.steps) :
            /\ output.steps[i] # Undefined
            /\ i <= Len(truckPath)
            /\ output.steps[i].address = truckPath[i]

(***************************************************************************)
(* C2: whenever generateTruckSteps returns success, every address of       *)
(* truckPath is the address of some returned step, and an address of the   *)
(* path with no pickup and no dropoff appears with action none (null).     *)
(***************************************************************************)
C2_EveryPathAddressHasStep ==
    (Succeeded /\ Len(deliveries) > 0) =>
        \A a \in Range(truckPath) :
            /\ \E i \in 1..Len(output.steps) :
                   /\ output.steps[i] # Undefined
                   /\ output.steps[i].address = a
            /\ ~HasParcelEvent(a) =>
                   \A i \in 1..Len(output.steps) :
                       (output.steps[i] # Undefined /\ output.steps[i].address = a)
                           => output.steps[i].action = "null"

(***************************************************************************)
(* C3: no partial success. generateTruckSteps returns status success if    *)
(* and only if parcelCanBeDelivered succeeds for every parcel; otherwise   *)
(* it returns status error with exactly an error_code and an               *)
(* error_message, and no steps.                                            *)
(***************************************************************************)
C3_NoPartialSuccess ==
    Returned =>
        /\ output.status \in {"success", "error"}
        /\ output.status = "success" <=> Undeliverable = {}
        /\ output.status = "success" => DOMAIN output = {"status", "steps"}
        /\ output.status = "error" =>
               /\ DOMAIN output = {"status", "error_code", "error_message"}
               /\ output.error_code \in {"delivery_address_not_in_path",
                                         "dropoff_address_not_in_path",
                                         "delivery_dropoff_before_pickup",
                                         "unknown_error"}

\* an error is returned although some parcel is deliverable
C3_Witness ==
    /\ Failed
    /\ Undeliverable # {}
    /\ \E i \in 1..Len(deliveries) : Deliverable(deliveries[i])

(***************************************************************************)
(* C4: when some parcel is not deliverable, the outcome is exactly the     *)
(* error parcelCanBeDelivered yields for the undeliverable parcel of the   *)
(* smallest index in deliveries, whatever the other parcels do.            *)
(***************************************************************************)
C4_FirstErrorInInputOrder ==
    (Returned /\ Undeliverable # {}) =>
        LET first == CHOOSE i \in Undeliverable : \A j \in Undeliverable : i <= j
            error == parcelCanBeDelivered(deliveries[first], truckPath)[2]
        IN  output = [status |-> "error",
                      error_code |-> error.error_code,
                      error_message |-> error.error_message]

\* two parcels fail with different errors, and the one whose pickup address
\* comes later on the path (or not at all) is first in the input
C4_Witness ==
    /\ Failed
    /\ Len(deliveries) = 2
    /\ Undeliverable = {1, 2}
    /\ maybeSteps[1][2].error_code = "dropoff_address_not_in_path"
    /\ maybeSteps[2][2].error_code = "delivery_dropoff_before_pickup"
    /\ output.error_code = "dropoff_address_not_in_path"

(***************************************************************************)
(* C5: a parcel whose pickup address does not occur in the path (the empty *)
(* path included) fails with delivery_address_not_in_path and the message  *)
(* "Delivery address {pickupAddress} not in path", whether or not its      *)
(* dropoff address occurs in the path.                                     *)
(***************************************************************************)
C5_PickupNotInPath ==
    pc = "done" =>
        \A i \in 1..Len(deliveries) :
            deliveries[i].pickupAddress \notin Range(truckPath) =>
                maybeSteps[i] =
                    <<FALSE, ErrorOf("delivery_address_not_in_path",
                                     "Delivery address "
                                         \o NumberToString(deliveries[i].pickupAddress)
                                         \o " not in path")>>

\* neither address of the parcel is in the path
C5_Witness ==
    /\ pc = "done"
    /\ \E i \in 1..Len(deliveries) :
           /\ deliveries[i] = [pickupAddress |-> 1, dropoffAddress |-> 2]
           /\ Range(truckPath) = {3}
           /\ maybeSteps[i][2].error_message = "Delivery address 1 not in path"

(***************************************************************************)
(* C6: a parcel whose pickup address occurs in the path and whose dropoff  *)
(* address does not fails with dropoff_address_not_in_path and the message *)
(* "Dropoff address {dropoffAddress} not in path".                         *)
(***************************************************************************)
C6_DropoffNotInPath ==
    pc = "done" =>
        \A i \in 1..Len(deliveries) :
            (/\ deliveries[i].pickupAddress \in Range(truckPath)
             /\ deliveries[i].dropoffAddress \notin Range(truckPath)) =>
                maybeSteps[i] =
                    <<FALSE, ErrorOf("dropoff_address_not_in_path",
                                     "Dropoff address "
                                         \o NumberToString(deliveries[i].dropoffAddress)
                                         \o " not in path")>>

C6_Witness ==
    /\ pc = "done"
    /\ \E i \in 1..Len(deliveries) :
           /\ deliveries[i] = [pickupAddress |-> 1, dropoffAddress |-> 2]
           /\ truckPath = <<1>>
           /\ maybeSteps[i][2].error_message = "Dropoff address 2 not in path"

(***************************************************************************)
(* C7: a parcel whose two addresses occur in the path, the first           *)
(* occurrence of the dropoff address strictly before the first occurrence  *)
(* of the pickup address, fails with delivery_dropoff_before_pickup and    *)
(* the message "Dropoff address {dropoffAddress} before pickup address     *)
(* {pickupAddress}", also when the dropoff address occurs again after the  *)
(* pickup.                                                                 *)
(***************************************************************************)
C7_DropoffBeforePickup ==
    pc = "done" =>
        \A i \in 1..Len(deliveries) :
            (/\ deliveries[i].pickupAddress \in Range(truckPath)
             /\ deliveries[i].dropoffAddress \in Range(truckPath)
             /\ FirstOccurrence(truckPath, deliveries[i].dropoffAddress)
                    < FirstOccurrence(truckPath, deliveries[i].pickupAddress)) =>
                maybeSteps[i] =
                    <<FALSE, ErrorOf("delivery_dropoff_before_pickup",
                                     "Dropoff address "
                                         \o NumberToString(deliveries[i].dropoffAddress)
                                         \o " before pickup address "
                                         \o NumberToString(deliveries[i].pickupAddress))>>

\* the dropoff address occurs before and again after the pickup address
C7_Witness ==
    /\ pc = "done"
    /\ \E i \in 1..Len(deliveries) :
           /\ deliveries[i] = [pickupAddress |-> 1, dropoffAddress |-> 2]
           /\ truckPath = <<2, 1, 2>>
           /\ maybeSteps[i][2].error_message = "Dropoff address 2 before pickup address 1"

(***************************************************************************)
(* C8: a parcel whose two addresses occur in the path, the first           *)
(* occurrence of the dropoff address at or after that of the pickup        *)
(* address (equal addresses included), succeeds with exactly two steps:    *)
(* the pickup at pickupAddress, then the dropoff at dropoffAddress.        *)
(***************************************************************************)
C8_DeliverableParcelSteps ==
    pc = "done" =>
        \A i \in 1..Len(deliveries) :
            (/\ deliveries[i].pickupAddress \in Range(truckPath)
             /\ deliveries[i].dropoffAddress \in Range(truckPath)
             /\ FirstOccurrence(truckPath, deliveries[i].dropoffAddress)
                    >= FirstOccurrence(truckPath, deliveries[i].pickupAddress)) =>
                maybeSteps[i] =
                    <<TRUE, << [address |-> deliveries[i].pickupAddress, action |-> "pickup"],
                               [address |-> deliveries[i].dropoffAddress, action |-> "dropoff"] >> >>

\* a parcel picked up and dropped off at the same address
C8_Witness ==
    /\ pc = "done"
    /\ \E i \in 1..Len(deliveries) :
           /\ deliveries[i].pickupAddress = deliveries[i].dropoffAddress
           /\ deliveries[i].pickupAddress \in Range(truckPath)
           /\ maybeSteps[i][1] = TRUE
           /\ Len(maybeSteps[i][2]) = 2

(***************************************************************************)
(* C10: the Unknown fallback is unreachable. generateTruckSteps never      *)
(* returns error_code unknown_error: whenever the all-deliverable check    *)
(* fails, a failing per-parcel result is found and its error is returned.  *)
(***************************************************************************)
C10_UnknownUnreachable ==
    Returned =>
        /\ output.status = "error" => output.error_code # "unknown_error"
        /\ ~parcelsAreAllDeliverable(maybeSteps) =>
               \E i \in 1..Len(maybeSteps) :
                   /\ maybeSteps[i][1] = FALSE
                   /\ output = [status |-> "error",
                                error_code |-> maybeSteps[i][2].error_code,
                                error_message |-> maybeSteps[i][2].error_message]

\* the all-deliverable check failed on a list where one parcel alone fails
C10_Witness ==
    /\ Failed
    /\ Len(deliveries) = 2
    /\ Cardinality(Undeliverable) = 1

(***************************************************************************)
(* C9: main always returns one of the exit codes 1, 2, 4, 0, in this       *)
(* precedence: 1 if either argument is missing; otherwise 2 if argument 1  *)
(* is malformed JSON, is not an array, is an empty array or has an element *)
(* that fails Parcel validation after tuple mapping; otherwise 4 if        *)
(* argument 2 is malformed or fails TruckPath validation; otherwise 0.     *)
(* Invalid deliveries win over an invalid truck path.                      *)
(* (An empty-string argument is read as a missing one.)                    *)
(***************************************************************************)
ElementIsParcel(element) == CanIndex(element) /\ isParcel(ParcelFromTuple(element))

ValidDeliveriesArg(a) ==
    /\ a.arg = "json"
    /\ a.value.type = "array"
    /\ Len(a.value.items) # 0
    /\ \A i \in 1..Len(a.value.items) : ElementIsParcel(a.value.items[i])

ValidTruckPathArg(a) == a.arg = "json" /\ isTruckPath(a.value)

ExitCodeOf(args) ==
    IF Falsy(args[1]) \/ Falsy(args[2]) THEN 1
    ELSE IF ~ValidDeliveriesArg(args[1]) THEN 2
    ELSE IF ~ValidTruckPathArg(args[2]) THEN 4
    ELSE 0

C9_ExitCodePrecedence ==
    (pc = "done" /\ mainResult # NoResult) =>
        mainResult = [kind |-> "return", code |-> ExitCodeOf(argv)]

(***************************************************************************)
(* C11: gap fill. With s the steps sorted ascending by address, the filled *)
(* sequence is s with one step {address: s[i].address + 1, action: none}   *)
(* inserted immediately after s[i] for every adjacent pair (s[i], s[i+1])  *)
(* with s[i+1].address = s[i].address + 2, and nothing else inserted or    *)
(* removed: pairs differing by 0, 1, 3 or more get no step, and the number *)
(* of none steps is the number of adjacent pairs differing by exactly 2.   *)
(***************************************************************************)
\* the indices i of s whose successor lies exactly 2 addresses further
GapsOfTwo(s) == {i \in 1..(Len(s) - 1) : s[i + 1].address = s[i].address + 2}

\* where s[i] stands in the filled sequence: after one more step per gap before it
FilledPosition(s, i) == i + Cardinality({j \in GapsOfTwo(s) : j < i})

NoneSteps(filled) == {k \in 1..Len(filled) : filled[k].action = "null"}

C11_GapFill ==
    Succeeded =>
        /\ \A i \in 1..(Len(steps) - 1) : steps[i].address <= steps[i + 1].address
        /\ Len(fullSteps) = Len(steps) + Cardinality(GapsOfTwo(steps))
        /\ \A i \in 1..Len(steps) : fullSteps[FilledPosition(steps, i)] = steps[i]
        /\ \A i \in GapsOfTwo(steps) :
               fullSteps[FilledPosition(steps, i) + 1]
                   = [address |-> steps[i].address + 1, action |-> "null"]
        /\ Cardinality(NoneSteps(fullSteps)) = Cardinality(GapsOfTwo(steps))

\* the sorted steps hold a pair 2 apart, which gets a step, and pairs 0 and
\* 3 or more apart, which get none
C11_Witness ==
    /\ Succeeded
    /\ \E i, j, k \in 1..(Len(steps) - 1) :
           /\ steps[i + 1].address = steps[i].address + 2
           /\ steps[j + 1].address >= steps[j].address + 3
           /\ steps[k + 1].address = steps[k].address
    /\ Cardinality(NoneSteps(fullSteps)) = 1
    /\ Len(fullSteps) = Len(steps) + 1

(***************************************************************************)
(* C12: the reorder under its assumption. When all parcels are             *)
(* deliverable, the gap-filled steps have pairwise distinct addresses,     *)
(* truckPath repeats no address, len(truckPath) = len(filledSteps) and     *)
(* every address of truckPath has a step in filledSteps, the returned      *)
(* steps are a permutation of filledSteps (no step lost, duplicated or     *)
(* absent) with steps[i].address = truckPath[i] for every i.               *)
(***************************************************************************)
NoRepeat(seq) == \A i, j \in 1..Len(seq) : seq[i] = seq[j] => i = j

Occurrences(seq, x) == Cardinality({i \in 1..Len(seq) : seq[i] = x})

IsPermutation(a, b) ==
    /\ Len(a) = Len(b)
    /\ \A x \in Range(a) \cup Range(b) : Occurrences(a, x) = Occurrences(b, x)

ReorderAssumption ==
    /\ Succeeded
    /\ NoRepeat([i \in 1..Len(fullSteps) |-> fullSteps[i].address])
    /\ NoRepeat(truckPath)
    /\ Len(truckPath) = Len(fullSteps)
    /\ \A a \in Range(truckPath) :
           \E k \in 1..Len(fullSteps) : fullSteps[k].address = a

C12_ReorderUnderAssumption ==
    ReorderAssumption =>
        /\ IsPermutation(output.steps, fullSteps)
        /\ \A i \in 1..Len(output.steps) :
               /\ output.steps[i] # Undefined
               /\ output.steps[i].address = truckPath[i]

\* the path is not in address order, so the reorder moves steps, a filled-in
\* step among them
C12_Witness ==
    /\ ReorderAssumption
    /\ output.steps # fullSteps
    /\ Len(output.steps) = 3
    /\ \E i \in 1..Len(output.steps) : output.steps[i].action = "null"

(***************************************************************************)
(* C13: no parcel event is lost. Whenever generateTruckSteps returns       *)
(* success, the returned steps contain, for every parcel of deliveries, a  *)
(* step {address: pickupAddress, action: pickup} and a step                *)
(* {address: dropoffAddress, action: dropoff}, also when several parcels   *)
(* share an address or a parcel is picked up and dropped off at one        *)
(* address.                                                                *)
(***************************************************************************)
Returns(step) == \E k \in 1..Len(output.steps) : output.steps[k] = step

C13_NoParcelEventLost ==
    Succeeded =>
        \A i \in 1..Len(deliveries) :
            /\ Returns([address |-> deliveries[i].pickupAddress, action |-> "pickup"])
            /\ Returns([address |-> deliveries[i].dropoffAddress, action |-> "dropoff"])

====
